---------------------------- MODULE Spec2Model ----------------------------
(***************************************************************************)
(* A model of math-ellm-practical.js: PrimeCalculator, MathExpressionEncoder *)
(* and MathStackELLM.  Texts are strings; a JavaScript Map is a function    *)
(* (or, where the iteration order is read, a sequence of entries); a        *)
(* BigInt is an integer.                                                    *)
(***************************************************************************)
EXTENDS Integers, Sequences, FiniteSets, TLC

VARIABLES
  primes,            \* PrimeCalculator.primes (array)
  primeCache,        \* PrimeCalculator.primeCache (Map n -> true)
  termToPrime,       \* MathExpressionEncoder.termToPrime
  primeToTerm,       \* MathExpressionEncoder.primeToTerm
  nextIndex,         \* MathExpressionEncoder.nextIndex
  questionIndex,     \* MathStackELLM.questionIndex, in insertion order
  expressionIndex,   \* MathStackELLM.expressionIndex
  primeFactorCache,  \* MathStackELLM.primeFactorCache
  indexed,           \* number of records handed to processDataset so far
  skipped,           \* qids of the records whose processing raised (catch, line 317)
  op                 \* the last call: its name, arguments and what it returned

vars == <<primes, primeCache, termToPrime, primeToTerm, nextIndex,
          questionIndex, expressionIndex, primeFactorCache, indexed,
          skipped, op>>

---------------------------------------------------------------------------
(* Bounds of the model. *)

\* sieve bounds tried for a bare PrimeCalculator: 0..MaxSieve
MaxSieve == 12
\* getNthPrime is called with n in 0..MaxN
MaxN == 9
\* the while loop of getNthPrime is followed up to this candidate
MaxCandidate == 40
\* records handed to processDataset in one run of the program
MaxIndexed == 2
\* records of one processDataset call
MaxBatch == 2
\* the expression bodies given to tokenizeExpression have at most this length
MaxBodyLen == 3

---------------------------------------------------------------------------
(* JavaScript strings. *)

\* body(value): binds the result of one call to a name
With(value, body(_)) == body(value)

\* s.charAt(i - 1)
Char(s, i) == IF i >= 1 /\ i <= Len(s) THEN SubSeq(s, i, i) ELSE ""

StartsWithAt(s, i, lit) ==
  /\ i >= 1
  /\ i + Len(lit) - 1 <= Len(s)
  /\ SubSeq(s, i, i + Len(lit) - 1) = lit

startsWith(s, lit) == StartsWithAt(s, 1, lit)

endsWith(s, lit) == StartsWithAt(s, Len(s) - Len(lit) + 1, lit)

\* s.substring(a, b) with 0 <= a <= b <= s.length (0-based, b exclusive)
substring(s, a, b) == SubSeq(s, a + 1, b)

UpperAlpha == "ABCDEFGHIJKLMNOPQRSTUVWXYZ"
LowerAlpha == "abcdefghijklmnopqrstuvwxyz"
DigitChars == "0123456789"

\* the position of the character c in alphabet, or 0
IndexTable(alphabet) ==
  [c \in {Char(alphabet, i) : i \in 1..Len(alphabet)} |->
     CHOOSE i \in 1..Len(alphabet) : Char(alphabet, i) = c]
UpperIndex == IndexTable(UpperAlpha)
LowerIndex == IndexTable(LowerAlpha)
DigitIndex == IndexTable(DigitChars)

IsLetter(c) == c \in DOMAIN UpperIndex \/ c \in DOMAIN LowerIndex
IsDigit(c) == c \in DOMAIN DigitIndex
\* \s of a regular expression, on the ASCII characters of the model
IsSpace(c) == c \in {" ", "\t", "\n", "\r", "\f"}

RECURSIVE toLowerCase(_)
toLowerCase(s) ==
  IF s = "" THEN ""
  ELSE (IF Head(s) \in DOMAIN UpperIndex
        THEN Char(LowerAlpha, UpperIndex[Head(s)])
        ELSE Head(s))
       \o toLowerCase(Tail(s))

RECURSIVE trim(_)
trim(s) ==
  IF s = "" THEN ""
  ELSE IF IsSpace(Head(s)) THEN trim(Tail(s))
  ELSE IF IsSpace(Char(s, Len(s))) THEN trim(SubSeq(s, 1, Len(s) - 1))
  ELSE s

\* the least j >= i with s[j] = c, or 0
RECURSIVE IndexOfFrom(_, _, _)
IndexOfFrom(s, c, i) ==
  IF i > Len(s) THEN 0
  ELSE IF Char(s, i) = c THEN i
  ELSE IndexOfFrom(s, c, i + 1)

\* Number.prototype.toString / BigInt.prototype.toString of n >= 0
RECURSIVE toString(_)
toString(n) ==
  IF n < 10 THEN Char(DigitChars, n + 1)
  ELSE toString(n \div 10) \o Char(DigitChars, (n % 10) + 1)

\* BigInt(s) / parseInt(s) of a string of decimal digits
RECURSIVE parseDigits(_, _)
parseDigits(s, acc) ==
  IF s = "" THEN acc
  ELSE parseDigits(Tail(s), acc * 10 + (DigitIndex[Head(s)] - 1))

BigInt(s) == parseDigits(s, 0)

---------------------------------------------------------------------------
(* PrimeCalculator *)

\* The value NaN of a JavaScript number; every other number of the
\* calculator is >= 0.
NaN == 0 - 1

\* the least i >= from with !sieve[i], or max + 1: the iterations of the
\* outer loop in between change nothing
NextUnmarked(from, max, sieve) ==
  IF \E i \in from..max : i \notin sieve
  THEN CHOOSE i \in from..max : i \notin sieve /\ \A k \in from..(i - 1) : k \in sieve
  ELSE max + 1

\* for (let j = i * i; j <= max; j += i) sieve[j] = 1
MarkMultiples(i, max, sieve) ==
  sieve \cup {j \in (i * i)..max : (j - i * i) % i = 0}

\* The marks the sieve has set when the outer loop is at the unmarked i,
\* followed until i * i > max: from there on the inner loop does not run.
RECURSIVE SieveMarks(_, _, _)
SieveMarks(i, max, sieve) ==
  IF i * i > max THEN sieve
  ELSE With(MarkMultiples(i, max, sieve),
            LAMBDA marked : SieveMarks(NextUnmarked(i + 1, max, marked), max, marked))

\* The unmarked i of lo..hi in increasing order, which is the order the
\* outer loop pushes them in.
RECURSIVE Unmarked(_, _, _)
Unmarked(lo, hi, sieve) ==
  IF lo > hi THEN <<>>
  ELSE IF lo = hi THEN (IF lo \in sieve THEN <<>> ELSE <<lo>>)
  ELSE LET mid == (lo + hi) \div 2
       IN Unmarked(lo, mid, sieve) \o Unmarked(mid + 1, hi, sieve)

generatePrimes(max) == Unmarked(2, max, SieveMarks(2, max, {}))

\* for (let i = 5; i * i <= n; i += 6): TRUE when a divisor is found
RECURSIVE WheelDivides(_, _)
WheelDivides(n, i) ==
  IF i * i > n THEN FALSE
  ELSE IF n % i = 0 \/ n % (i + 2) = 0 THEN TRUE
  ELSE WheelDivides(n, i + 6)

\* isPrime(n): [ret, cache]
isPrime(cache, n) ==
  IF n \in DOMAIN cache THEN [ret |-> cache[n], cache |-> cache]
  ELSE IF n = NaN
  THEN \* every comparison with NaN is false: the test falls through
       [ret |-> TRUE, cache |-> (n :> TRUE) @@ cache]
  ELSE IF n <= 1 THEN [ret |-> FALSE, cache |-> cache]
  ELSE IF n <= 3 THEN [ret |-> TRUE, cache |-> cache]
  ELSE IF n % 2 = 0 \/ n % 3 = 0 THEN [ret |-> FALSE, cache |-> cache]
  ELSE IF WheelDivides(n, 5) THEN [ret |-> FALSE, cache |-> cache]
  ELSE [ret |-> TRUE, cache |-> (n :> TRUE) @@ cache]

\* a + b of two JavaScript numbers
NumAdd(a, b) == IF a = NaN \/ b = NaN THEN NaN ELSE a + b

\* while (this.primes.length <= n) { ... candidate += 2 }, followed while
\* the candidate is at most MaxCandidate: returned = FALSE says the loop is
\* still running there.
RECURSIVE NthPrimeLoop(_, _, _, _)
NthPrimeLoop(ps, cache, candidate, n) ==
  IF Len(ps) > n
  THEN [primes |-> ps, primeCache |-> cache, returned |-> TRUE, ret |-> ps[n + 1]]
  ELSE IF candidate > MaxCandidate
  THEN [primes |-> ps, primeCache |-> cache, returned |-> FALSE, ret |-> NaN]
  ELSE With(isPrime(cache, candidate),
            LAMBDA t : NthPrimeLoop(IF t.ret THEN Append(ps, candidate) ELSE ps,
                                    t.cache, NumAdd(candidate, 2), n))

\* getNthPrime(n) on the calculator [primes, primeCache]
getNthPrime(ps, cache, n) ==
  IF n < Len(ps)
  THEN [primes |-> ps, primeCache |-> cache, returned |-> TRUE, ret |-> ps[n + 1]]
  ELSE NthPrimeLoop(ps, cache,
                    \* primes[length - 1] of an empty array is undefined
                    IF Len(ps) = 0 THEN NaN ELSE NumAdd(ps[Len(ps)], 2),
                    n)

---------------------------------------------------------------------------
(* MathExpressionEncoder: tokenizeExpression and extractExpressions *)

\* The string literal that startsWith is given at line 212: the text between
\* the two quotes of that line.
DollarGuard == ") && cleanExpr.endsWith("

\* if (cleanExpr.startsWith(...)) cleanExpr = cleanExpr.substring(1, length - 1)
StripDollar(expr) ==
  IF startsWith(expr, DollarGuard) THEN substring(expr, 1, Len(expr) - 1) ELSE expr

\* if (startsWith('\\(') && endsWith('\\)')) substring(2, length - 2);
\* substring swaps its arguments when the first is the larger
StripParen(expr) ==
  IF startsWith(expr, "\\(") /\ endsWith(expr, "\\)")
  THEN IF Len(expr) - 2 >= 2 THEN substring(expr, 2, Len(expr) - 2)
       ELSE substring(expr, Len(expr) - 2, 2)
  ELSE expr

\* .replace(/\\frac\{([^}]*)\}\{([^}]*)\}/g, '($1)/($2)') from position i
RECURSIVE ReplaceFrac(_, _)
ReplaceFrac(s, i) ==
  IF i > Len(s) THEN ""
  ELSE With(IF StartsWithAt(s, i, "\\frac{") THEN IndexOfFrom(s, "}", i + 6) ELSE 0,
    LAMBDA j :
      With(IF j > 0 /\ Char(s, j + 1) = "{" THEN IndexOfFrom(s, "}", j + 2) ELSE 0,
        LAMBDA k :
          IF k > 0
          THEN "(" \o SubSeq(s, i + 6, j - 1) \o ")/(" \o SubSeq(s, j + 2, k - 1) \o ")"
               \o ReplaceFrac(s, k + 1)
          ELSE Char(s, i) \o ReplaceFrac(s, i + 1)))

\* .replace(/\\sqrt\{([^}]*)\}/g, 'sqrt($1)') from position i
RECURSIVE ReplaceSqrt(_, _)
ReplaceSqrt(s, i) ==
  IF i > Len(s) THEN ""
  ELSE With(IF StartsWithAt(s, i, "\\sqrt{") THEN IndexOfFrom(s, "}", i + 6) ELSE 0,
    LAMBDA j :
      IF j > 0
      THEN "sqrt(" \o SubSeq(s, i + 6, j - 1) \o ")" \o ReplaceSqrt(s, j + 1)
      ELSE Char(s, i) \o ReplaceSqrt(s, i + 1))

\* .replace(/\s+/g, '')
RECURSIVE RemoveWhitespace(_)
RemoveWhitespace(s) ==
  IF s = "" THEN ""
  ELSE (IF IsSpace(Head(s)) THEN "" ELSE Head(s)) \o RemoveWhitespace(Tail(s))

OperatorChars == {"+", "-", "*", "/", "=", "<", ">", "^", "(", ")"}

\* .replace(/([+\-*/=<>^()])/g, ' $1 ')
RECURSIVE SpaceOperators(_)
SpaceOperators(s) ==
  IF s = "" THEN ""
  ELSE (IF Head(s) \in OperatorChars THEN " " \o Head(s) \o " " ELSE Head(s))
       \o SpaceOperators(Tail(s))

\* the end of the longest run of letters that starts at i (i - 1 when none)
RECURSIVE LetterRunEnd(_, _)
LetterRunEnd(s, i) ==
  IF i <= Len(s) /\ IsLetter(Char(s, i)) THEN LetterRunEnd(s, i + 1) ELSE i - 1

\* .replace(/\\([a-zA-Z]+)/g, ' $1 ') from position i
RECURSIVE SpaceCommands(_, _)
SpaceCommands(s, i) ==
  IF i > Len(s) THEN ""
  ELSE With(IF Char(s, i) = "\\" THEN LetterRunEnd(s, i + 1) ELSE 0,
    LAMBDA e :
      IF e > i
      THEN " " \o SubSeq(s, i + 1, e) \o " " \o SpaceCommands(s, e + 1)
      ELSE Char(s, i) \o SpaceCommands(s, i + 1))

\* .split(/\s+/).filter(t => t.length > 0): cur is the piece being read
RECURSIVE SplitSpaces(_, _)
SplitSpaces(s, cur) ==
  IF s = "" THEN (IF cur = "" THEN <<>> ELSE <<cur>>)
  ELSE IF IsSpace(Head(s))
  THEN (IF cur = "" THEN <<>> ELSE <<cur>>) \o SplitSpaces(Tail(s), "")
  ELSE SplitSpaces(Tail(s), cur \o Head(s))

tokenizeExpression(expr) ==
  SplitSpaces(
    SpaceCommands(
      SpaceOperators(
        RemoveWhitespace(
          ReplaceSqrt(ReplaceFrac(StripParen(StripDollar(expr)), 1), 1))), 1), "")

\* the least j >= i where lit starts and no line break lies in i..j-1, or 0
\* (the dot of a regular expression matches no line terminator)
RECURSIVE LazyUntil(_, _, _)
LazyUntil(s, lit, i) ==
  IF i > Len(s) THEN 0
  ELSE IF StartsWithAt(s, i, lit) THEN i
  ELSE IF Char(s, i) \in {"\n", "\r"} THEN 0
  ELSE LazyUntil(s, lit, i + 1)

\* while ((match = /open(.*?)close/g.exec(text))): the trimmed non-empty
\* captures, scanning from position i; open and close are the same literal
RECURSIVE ScanDelimited(_, _, _)
ScanDelimited(text, lit, i) ==
  IF i > Len(text) THEN <<>>
  ELSE IF ~StartsWithAt(text, i, lit) THEN ScanDelimited(text, lit, i + 1)
  ELSE With(LazyUntil(text, lit, i + Len(lit)),
    LAMBDA j :
      IF j = 0 THEN ScanDelimited(text, lit, i + 1)
      ELSE With(trim(SubSeq(text, i + Len(lit), j - 1)),
             LAMBDA m : IF m = "" THEN <<>> ELSE <<m>>)
           \o ScanDelimited(text, lit, j + Len(lit)))

\* the least j >= i where a backslash and one of ")", "]" start, with no line
\* break in i..j-1, or 0
RECURSIVE LazyUntilClose(_, _)
LazyUntilClose(s, i) ==
  IF i > Len(s) THEN 0
  ELSE IF Char(s, i) = "\\" /\ Char(s, i + 1) \in {")", "]"} THEN i
  ELSE IF Char(s, i) \in {"\n", "\r"} THEN 0
  ELSE LazyUntilClose(s, i + 1)

\* /\\[\(\[](.+?)\\[\)\]]/g: the capture holds at least one character
RECURSIVE ScanLatex(_, _)
ScanLatex(text, i) ==
  IF i > Len(text) THEN <<>>
  ELSE IF ~(Char(text, i) = "\\" /\ Char(text, i + 1) \in {"(", "["})
  THEN ScanLatex(text, i + 1)
  ELSE IF i + 2 > Len(text) \/ Char(text, i + 2) \in {"\n", "\r"}
  THEN ScanLatex(text, i + 1)
  ELSE With(LazyUntilClose(text, i + 3),
    LAMBDA j :
      IF j = 0 THEN ScanLatex(text, i + 1)
      ELSE With(trim(SubSeq(text, i + 2, j - 1)),
             LAMBDA m : IF m = "" THEN <<>> ELSE <<m>>)
           \o ScanLatex(text, j + 2))

extractExpressions(text) ==
  ScanDelimited(text, "$", 1) \o ScanDelimited(text, "$$", 1) \o ScanLatex(text, 1)

---------------------------------------------------------------------------
(* MathExpressionEncoder: the term -> prime map and the encodings.  An     *)
(* encoder value e holds the fields primes, primeCache (its primeCalc),     *)
(* termToPrime, primeToTerm and nextIndex.                                  *)

\* new PrimeCalculator(10000), line 120
EncoderSieveMax == 10000

\* The seed symbols of initializeCommonSymbols in their declared order.  The
\* module's strings are ASCII: "<=" and ">=" stand for the one-character
\* symbols U+2264 and U+2265 (no tokenized text of the model yields them).
CommonSymbols ==
  << "+", "-", "*", "/", "^", "=", "<", ">", "<=", ">=",
     "sin", "cos", "tan", "log", "ln", "exp",
     "lim", "int", "sum", "pi", "sqrt" >>

\* the assignment with this.nextIndex for this.nextIndex++
AssignPrime_SameIndex(e, normalizedTerm, r) ==
  [enc |-> [primes |-> r.primes,
            primeCache |-> r.primeCache,
            termToPrime |-> (normalizedTerm :> r.ret) @@ e.termToPrime,
            primeToTerm |-> (r.ret :> normalizedTerm) @@ e.primeToTerm,
            nextIndex |-> e.nextIndex],
   ret |-> r.ret]

\* lines 151-155: the next prime is assigned to normalizedTerm; r is what
\* getNthPrime(this.nextIndex++) came to
AssignPrime(e, normalizedTerm, r) ==
  [enc |-> [primes |-> r.primes,
            primeCache |-> r.primeCache,
            termToPrime |-> (normalizedTerm :> r.ret) @@ e.termToPrime,
            primeToTerm |-> (r.ret :> normalizedTerm) @@ e.primeToTerm,
            nextIndex |-> e.nextIndex + 1],
   ret |-> r.ret]

\* getPrime with the term taken as written (String(term) alone)
getPrime_AsWritten(e, term) ==
  IF term \in DOMAIN e.termToPrime
  THEN [enc |-> e, ret |-> e.termToPrime[term]]
  ELSE AssignPrime(e, term, getNthPrime(e.primes, e.primeCache, e.nextIndex))

\* getPrime(term): [enc, ret]
getPrime(e, term) ==
  With(toLowerCase(term),
    LAMBDA normalizedTerm :
      IF normalizedTerm \in DOMAIN e.termToPrime
      THEN [enc |-> e, ret |-> e.termToPrime[normalizedTerm]]
      ELSE AssignPrime(e, normalizedTerm,
                       getNthPrime(e.primes, e.primeCache, e.nextIndex)))

\* the loop with encoding = BigInt(prime) for encoding *= BigInt(prime)
RECURSIVE EncodeTokens_Assign(_, _, _, _)
EncodeTokens_Assign(e, tokens, i, encoding) ==
  IF i > Len(tokens) THEN [enc |-> e, ret |-> encoding]
  ELSE With(getPrime(e, tokens[i]),
         LAMBDA g : EncodeTokens_Assign(g.enc, tokens, i + 1, g.ret))

\* for (const token of tokens) encoding *= BigInt(getPrime(token)), from
\* token i on: [enc, ret]
RECURSIVE EncodeTokens(_, _, _, _)
EncodeTokens(e, tokens, i, encoding) ==
  IF i > Len(tokens) THEN [enc |-> e, ret |-> encoding]
  ELSE With(getPrime(e, tokens[i]),
            LAMBDA g : EncodeTokens(g.enc, tokens, i + 1, encoding * g.ret))

\* for (const symbol of symbols) this.getPrime(symbol), from symbol i on
RECURSIVE SeedSymbols(_, _, _)
SeedSymbols(e, symbols, i) ==
  IF i > Len(symbols) THEN e
  ELSE SeedSymbols(getPrime(e, symbols[i]).enc, symbols, i + 1)

initializeCommonSymbols(e) == SeedSymbols(e, CommonSymbols, 1)

\* new MathExpressionEncoder()
EncoderPrimes == generatePrimes(EncoderSieveMax)

NewEncoder ==
  initializeCommonSymbols(
    [primes |-> EncoderPrimes,
     primeCache |-> <<>>,
     termToPrime |-> <<>>,
     primeToTerm |-> <<>>,
     nextIndex |-> 0])

\* encodeExpression(expr): [enc, ret]
encodeExpression(e, expr) ==
  With(tokenizeExpression(expr),
    LAMBDA tokens :
      IF Len(tokens) = 0 THEN [enc |-> e, ret |-> 1]
      ELSE EncodeTokens(e, tokens, 1, 1))

RECURSIVE AllDigits(_)
AllDigits(s) == s = "" \/ (IsDigit(Head(s)) /\ AllDigits(Tail(s)))

\* /^\d+(\.\d+)?$/.test(token)
IsNumberToken(token) ==
  With(IndexOfFrom(token, ".", 1),
    LAMBDA dot :
      IF dot = 0 THEN token # "" /\ AllDigits(token)
      ELSE /\ dot > 1
           /\ dot < Len(token)
           /\ AllDigits(SubSeq(token, 1, dot - 1))
           /\ AllDigits(SubSeq(token, dot + 1, Len(token))))

keySymbols == {"=", "+", "-", "*", "/", "^", "sin", "cos", "tan", "log", "int"}

\* the filter callback of encodeTerms
IsKeyTerm(token) ==
  \/ (Len(token) = 1 /\ IsLetter(token))
  \/ IsNumberToken(token)
  \/ token \in keySymbols

\* encodeTerms(expr): [enc, ret]
encodeTerms(e, expr) ==
  EncodeTokens(e, SelectSeq(tokenizeExpression(expr), IsKeyTerm), 1, 1)

---------------------------------------------------------------------------
(* MathStackELLM.  A system value s holds the fields enc (its encoder),     *)
(* questionIndex, expressionIndex and primeFactorCache.                     *)

\* JavaScript values a dataset record may hold in a field
JsString(str) == [type |-> "string", value |-> str]
JsNull == [type |-> "null", value |-> ""]

\* ToString(v), as RegExp.prototype.exec applies it to its argument
JsToString(v) == IF v.type = "null" THEN "null" ELSE v.value

\* the position of key in the question index, or 0 (Map.prototype.has)
QuestionIndexPos(qi, key) ==
  IF \E i \in 1..Len(qi) : qi[i].key = key
  THEN CHOOSE i \in 1..Len(qi) : qi[i].key = key
  ELSE 0

\* this.questionIndex.get(key).push(exprId)
PushAt(qi, i, exprId) == [qi EXCEPT ![i].expressions = Append(@, exprId)]

\* lines 310-314: create the list on first use, then push encodedExpr
QuestionIndexPush(qi, key, exprId) ==
  IF QuestionIndexPos(qi, key) = 0
  THEN PushAt(Append(qi, [key |-> key, expressions |-> <<>>]), Len(qi) + 1, exprId)
  ELSE PushAt(qi, QuestionIndexPos(qi, key), exprId)

\* lines 301-305: this.expressionIndex.set(encodedExpr.toString(), {...})
StoreExpression(s, entry, expr, x) ==
  [s EXCEPT !.enc = x.enc,
            !.expressionIndex = (toString(x.ret) :> [expression |-> expr,
                                                     answer |-> entry.answer,
                                                     qid |-> entry.qid]) @@ @]

\* lines 308-314: t is what encodeTerms(entry.question) came to
IndexQuestion(s, exprKey, t) ==
  [s EXCEPT !.enc = t.enc,
            !.questionIndex = QuestionIndexPush(@, toString(t.ret), exprKey)]

\* for (const expr of expressions) { ... } of one entry, from expression i
\* on: [sys, threw]
RECURSIVE IndexExpressions(_, _, _, _)
IndexExpressions(s, entry, expressions, i) ==
  IF i > Len(expressions) THEN [sys |-> s, threw |-> FALSE]
  ELSE
    With(encodeExpression(s.enc, expressions[i]),
      LAMBDA x :
        With(StoreExpression(s, entry, expressions[i], x),
          LAMBDA stored :
            IF entry.question.type # "string"
            THEN \* encodeTerms -> tokenizeExpression: startsWith of a
                 \* non-string is a TypeError
                 [sys |-> stored, threw |-> TRUE]
            ELSE IndexExpressions(
                   IndexQuestion(stored, toString(x.ret),
                                 encodeTerms(stored.enc, entry.question.value)),
                   entry, expressions, i + 1)))

\* the try block of processDataset for one entry: [sys, threw]
ProcessEntry(s, entry) ==
  IF entry.isNull
  THEN \* entry.answer of null is a TypeError
       [sys |-> s, threw |-> TRUE]
  ELSE With(extractExpressions(JsToString(entry.answer)),
         LAMBDA expressions :
           IF Len(expressions) > 0
           THEN IndexExpressions(s, entry, expressions, 1)
           ELSE [sys |-> s, threw |-> FALSE])

\* processDataset(dataset), from entry i on: [sys, raised], raised the qids
\* of the entries the catch block skipped
RECURSIVE processDataset(_, _, _, _)
processDataset(s, data, i, raised) ==
  IF i > Len(data) THEN [sys |-> s, raised |-> raised]
  ELSE With(ProcessEntry(s, data[i]),
         LAMBDA r : processDataset(r.sys, data, i + 1,
                      IF r.threw THEN raised \cup {data[i].qid} ELSE raised))

\* the loop with i < nextIndex - 1 for i < nextIndex
FactorsOf_SkipLast(e, n) ==
  SelectSeq([i \in 1..(e.nextIndex - 1) |->
               getNthPrime(e.primes, e.primeCache, i - 1).ret],
            LAMBDA prime : n % prime = 0)

\* lines 429-436: the primes among the first nextIndex that divide n
FactorsOf(e, n) ==
  SelectSeq([i \in 1..e.nextIndex |-> getNthPrime(e.primes, e.primeCache, i - 1).ret],
            LAMBDA prime : n % prime = 0)

\* this.primeFactorCache.set(key, factors); return factors
CacheFactors(cache, key, factors) ==
  [cache |-> (key :> factors) @@ cache, ret |-> factors]

\* getPrimeFactors(n): [cache, ret]
getPrimeFactors(s, n) ==
  With(toString(n),
    LAMBDA key :
      IF key \in DOMAIN s.primeFactorCache
      THEN [cache |-> s.primeFactorCache, ret |-> s.primeFactorCache[key]]
      ELSE CacheFactors(s.primeFactorCache, key, FactorsOf(s.enc, n)))

\* A JavaScript number that is a quotient of two small integers, kept as
\* the quotient; 0 is 0 / 1.
Ratio(n, d) == [num |-> n, den |-> d]

\* a > b of two such numbers
RatioGreater(a, b) == a.num * b.den > b.num * a.den

SeqToSet(q) == {q[i] : i \in DOMAIN q}

\* lines 458-461
JaccardOf(size1, size2, intersectionSize) ==
  IF size1 + size2 - intersectionSize = 0 THEN Ratio(0, 1)
  ELSE Ratio(intersectionSize, size1 + size2 - intersectionSize)

calculateJaccardSimilarity(set1, set2) ==
  JaccardOf(Cardinality(SeqToSet(set1)), Cardinality(SeqToSet(set2)),
            Cardinality({item \in SeqToSet(set1) : item \in SeqToSet(set2)}))

\* similarity > 0.3
Threshold == Ratio(3, 10)

\* matches.push({ expression, answer, similarity, qid })
MatchOf(exprInfo, similarity) ==
  [expression |-> exprInfo.expression,
   answer |-> exprInfo.answer,
   similarity |-> similarity,
   qid |-> exprInfo.qid]

\* for (const exprId of expressions) matches.push({...})
MatchesOf(s, expressions, similarity) ==
  [i \in 1..Len(expressions) |->
     MatchOf(s.expressionIndex[expressions[i]], similarity)]

\* the matches of one indexed entry without the test of the threshold
MatchesIfSimilar_Always(s, expressions, similarity) ==
  MatchesOf(s, expressions, similarity)

\* lines 393-404: the matches one indexed entry adds
MatchesIfSimilar(s, expressions, similarity) ==
  IF RatioGreater(similarity, Threshold)
  THEN MatchesOf(s, expressions, similarity)
  ELSE <<>>

\* the loop over questionIndex.entries(), from entry i on: [cache, matches]
RECURSIVE CompareIndexed(_, _, _, _)
CompareIndexed(s, queryFactors, i, matches) ==
  IF i > Len(s.questionIndex)
  THEN [cache |-> s.primeFactorCache, matches |-> matches]
  ELSE With(getPrimeFactors(s, BigInt(s.questionIndex[i].key)),
         LAMBDA f :
           CompareIndexed([s EXCEPT !.primeFactorCache = f.cache],
             queryFactors, i + 1,
             matches \o MatchesIfSimilar(s, s.questionIndex[i].expressions,
                          calculateJaccardSimilarity(queryFactors, f.ret))))

\* the insertion with >= for >: m goes before the elements it ties with
RECURSIVE InsertSorted_TiesFirst(_, _)
InsertSorted_TiesFirst(q, m) ==
  IF q = <<>> THEN <<m>>
  ELSE IF ~RatioGreater(q[Len(q)].similarity, m.similarity)
  THEN Append(InsertSorted_TiesFirst(SubSeq(q, 1, Len(q) - 1), m), q[Len(q)])
  ELSE Append(q, m)

\* inserts m into the sorted sequence q behind every element that does not
\* sort after it: (a, b) => b.similarity - a.similarity, stable
RECURSIVE InsertSorted(_, _)
InsertSorted(q, m) ==
  IF q = <<>> THEN <<m>>
  ELSE IF RatioGreater(m.similarity, q[Len(q)].similarity)
  THEN Append(InsertSorted(SubSeq(q, 1, Len(q) - 1), m), q[Len(q)])
  ELSE Append(q, m)

\* matches.sort((a, b) => b.similarity - a.similarity)
RECURSIVE SortMatches(_, _, _)
SortMatches(matches, i, sorted) ==
  IF i > Len(matches) THEN sorted
  ELSE SortMatches(matches, i + 1, InsertSorted(sorted, matches[i]))

\* return matches.slice(0, 5)
TopMatches == 5

\* matches.slice(0, 5)
Slice(q, n) == SubSeq(q, 1, IF Len(q) < n THEN Len(q) ELSE n)

\* lines 407-410: c is what the loop came to
SortAndCut(c) ==
  [cache |-> c.cache, matches |-> Slice(SortMatches(c.matches, 1, <<>>), TopMatches)]

\* findSimilarQuestions(encodedQuestionTerms): [cache, matches]
findSimilarQuestions(s, encodedQuestionTerms) ==
  With(getPrimeFactors(s, encodedQuestionTerms),
    LAMBDA q :
      SortAndCut(CompareIndexed([s EXCEPT !.primeFactorCache = q.cache],
                                q.ret, 1, <<>>)))

---------------------------------------------------------------------------
(* MathStackELLM: generateAnswer and answerQuestion *)

\* String(n) of an integer
NumToString(n) == IF n < 0 THEN "-" \o toString(0 - n) ELSE toString(n)

\* s.match(/lit/) for a literal pattern
Contains(s, lit) == \E i \in 1..Len(s) : StartsWithAt(s, i, lit)

\* s.match(/lit/i) for a literal pattern written in lower case
ContainsCI(s, lit) == Contains(toLowerCase(s), lit)

\* the end of the longest run of digits that starts at i (i - 1 when none)
RECURSIVE DigitRunEnd(_, _)
DigitRunEnd(s, i) ==
  IF i <= Len(s) /\ IsDigit(Char(s, i)) THEN DigitRunEnd(s, i + 1) ELSE i - 1

\* the least element of a set of positions, or 0
FirstOf(hits) == IF hits = {} THEN 0 ELSE CHOOSE i \in hits : \A j \in hits : i <= j

\* where /x\^(\d+)/ matches first, or 0
PowerMatchPos(s) ==
  FirstOf({i \in 1..Len(s) : StartsWithAt(s, i, "x^") /\ IsDigit(Char(s, i + 2))})

\* parseInt(question.match(/x\^(\d+)/)[1])
PowerOf(s) ==
  With(PowerMatchPos(s), LAMBDA i : BigInt(SubSeq(s, i + 2, DigitRunEnd(s, i + 2))))

\* lines 478-479; power and lower are String(power) and String(power - 1)
DerivativeOfPower(power, lower) ==
  [expression |-> "\\frac{d}{dx}(x^" \o power \o ") = " \o power \o "x^" \o lower,
   answer |-> "The derivative of $x^" \o power \o "$ is " \o power \o "x^" \o lower
              \o "$."]

\* lines 491-492; power and newPower are String(power) and String(newPower)
IntegralOfPower(power, newPower) ==
  [expression |-> "\\int x^" \o power \o " dx = \\frac{x^" \o newPower \o "}{"
                  \o newPower \o "} + C",
   answer |-> "The integral of $x^" \o power \o "$ is $\\frac{x^" \o newPower
              \o "}{" \o newPower \o "} + C$."]

\* /find.*x/ on a text in lower case: the dot matches no line terminator
FindThenX(l) ==
  \E i \in 1..Len(l) :
    /\ StartsWithAt(l, i, "find")
    /\ \E j \in (i + 4)..Len(l) :
         /\ Char(l, j) = "x"
         /\ \A k \in (i + 4)..(j - 1) : Char(l, k) \notin {"\n", "\r"}

\* s.match(/find.*x/i)
MatchesFindX(s) == FindThenX(toLowerCase(s))

\* generateAnswer(question): [expression, answer]
generateAnswer(question) ==
  IF \/ ContainsCI(question, "derivative")
     \/ ContainsCI(question, "differentiate")
     \/ ContainsCI(question, "d/dx")
  THEN IF PowerMatchPos(question) > 0
       THEN DerivativeOfPower(NumToString(PowerOf(question)),
                              NumToString(PowerOf(question) - 1))
       ELSE IF ContainsCI(question, "sin(x)")
       THEN [expression |-> "\\frac{d}{dx}\\sin(x) = \\cos(x)",
             answer |-> "The derivative of $\\sin(x)$ is $\\cos(x)$."]
       ELSE [expression |-> "\\frac{d}{dx}f(x) = f'(x)",
             answer |-> "To find the derivative, apply the differentiation rules to the function."]
  ELSE IF \/ ContainsCI(question, "integrate")
          \/ ContainsCI(question, "integral")
          \/ ContainsCI(question, "antiderivative")
  THEN IF PowerMatchPos(question) > 0
       THEN IntegralOfPower(NumToString(PowerOf(question)),
                            NumToString(PowerOf(question) + 1))
       ELSE IF ContainsCI(question, "sin(x)")
       THEN [expression |-> "\\int \\sin(x) dx = -\\cos(x) + C",
             answer |-> "The integral of $\\sin(x)$ is $-\\cos(x) + C$."]
       ELSE [expression |-> "\\int f(x) dx = F(x) + C",
             answer |-> "To find the integral, apply the integration rules to the function."]
  ELSE IF \/ ContainsCI(question, "equation")
          \/ ContainsCI(question, "solve")
          \/ MatchesFindX(question)
  THEN IF ContainsCI(question, "quadratic") \/ ContainsCI(question, "x^2")
       THEN [expression |-> "x = \\frac{-b \\pm \\sqrt{b^2 - 4ac}}{2a}",
             answer |-> "For a quadratic equation $ax^2 + bx + c = 0$, the solution is given by the quadratic formula: $x = \\frac{-b \\pm \\sqrt{b^2 - 4ac}}{2a}$."]
       ELSE [expression |-> "ax + b = 0 \\implies x = -\\frac{b}{a}",
             answer |-> "For a linear equation $ax + b = 0$, the solution is $x = -\\frac{b}{a}$."]
  ELSE \* if (expression === "")
       [expression |-> "E = mc^2",
        answer |-> "I couldn't determine the specific equation for this question. Here's a famous equation: $E = mc^2$."]

\* the digits of n, padded with zeros on the left to width w
RECURSIVE PadDigits(_, _)
PadDigits(str, w) == IF Len(str) >= w THEN str ELSE PadDigits("0" \o str, w)

\* the decimal notation of n / 10000 with four fractional digits
FixedDigits(n) == toString(n \div 10000) \o "." \o PadDigits(toString(n % 10000), 4)

\* similarity.toFixed(4): the nearest multiple of 1/10000, the larger one
\* of two that are equally near
toFixed4(r) == FixedDigits((r.num * 20000 + r.den) \div (2 * r.den))

\* lines 351-360: the best match is returned
MatchedResult(question, bestMatch) ==
  [query |-> question,
   expression |-> bestMatch.expression,
   confidence |-> toFixed4(bestMatch.similarity),
   answer |-> bestMatch.answer]

\* lines 364-372: a generated answer is returned
GeneratedResult(question, generatedAnswer) ==
  [query |-> question,
   expression |-> generatedAnswer.expression,
   confidence |-> "0.5000",
   answer |-> JsString(generatedAnswer.answer),
   note |-> "Generated answer (not from knowledge base)"]

\* the result with matches.length > 1 for matches.length > 0
AnswerFrom_MoreThanOne(s, question, e, f) ==
  [sys |-> [s EXCEPT !.enc = e, !.primeFactorCache = f.cache],
   matches |-> f.matches,
   ret |-> IF Len(f.matches) > 1
           THEN MatchedResult(question, f.matches[1])
           ELSE GeneratedResult(question, generateAnswer(question))]

\* lines 349-372: e is the encoder after encodeTerms, f what
\* findSimilarQuestions came to
AnswerFrom(s, question, e, f) ==
  [sys |-> [s EXCEPT !.enc = e, !.primeFactorCache = f.cache],
   matches |-> f.matches,
   ret |-> IF Len(f.matches) > 0
           THEN MatchedResult(question, f.matches[1])
           ELSE GeneratedResult(question, generateAnswer(question))]

\* answerQuestion(question): [sys, matches, ret]
answerQuestion(s, question) ==
  With(encodeTerms(s.enc, question),
    LAMBDA t :
      AnswerFrom(s, question, t.enc,
                 findSimilarQuestions([s EXCEPT !.enc = t.enc], t.ret)))

---------------------------------------------------------------------------
(* The program as a state machine: one MathStackELLM, its encoder and its  *)
(* prime calculator, called from outside.                                   *)

\* the encoder and the system the variables hold
Enc ==
  [primes |-> primes, primeCache |-> primeCache, termToPrime |-> termToPrime,
   primeToTerm |-> primeToTerm, nextIndex |-> nextIndex]

Sys ==
  [enc |-> Enc, questionIndex |-> questionIndex,
   expressionIndex |-> expressionIndex, primeFactorCache |-> primeFactorCache]

EncBecomes(e) ==
  /\ primes' = e.primes
  /\ primeCache' = e.primeCache
  /\ termToPrime' = e.termToPrime
  /\ primeToTerm' = e.primeToTerm
  /\ nextIndex' = e.nextIndex

SysBecomes(s) ==
  /\ EncBecomes(s.enc)
  /\ questionIndex' = s.questionIndex
  /\ expressionIndex' = s.expressionIndex
  /\ primeFactorCache' = s.primeFactorCache

\* a dataset record { qid, question, answer }, or null
Entry(qid, question, answer) ==
  [isNull |-> FALSE, qid |-> qid, question |-> question, answer |-> answer]
NullEntry(qid) ==
  [isNull |-> TRUE, qid |-> qid, question |-> JsNull, answer |-> JsNull]

\* The records the datasets of the model are made of.  Records 3 and 4 are
\* malformed: 3 has no question text, 4 is null (its qid only names it).
RecordPool ==
  { Entry(1, JsString("x^2+x"), JsString("$2x$")),
    Entry(2, JsString("sin(y)"), JsString("so $2x$")),
    Entry(3, JsNull, JsString("$2x$ $y$")),
    NullEntry(4),
    Entry(5, JsString("why"), JsString("$$a+a$$ none")) }

Datasets == UNION {[1..n -> RecordPool] : n \in 1..MaxBatch}

QuestionPool == {"X^2", "sin(x)", "what"}

TermPool == {"X"}

\* a term that is a seed symbol in another case
SeedTermPool == {"PI"}

ExpressionPool ==
  {"", "a", "a*", "a*b", "b*a", "a*b*", "a*b*a", "a*a*b", "b*a*a"}

KeyTextPool == {"Sin(x)", "sin(x)", "SIN(X)", "(why)", "3.5*x"}

\* new MathStackELLM()
Init ==
  /\ primes = NewEncoder.primes
  /\ primeCache = NewEncoder.primeCache
  /\ termToPrime = NewEncoder.termToPrime
  /\ primeToTerm = NewEncoder.primeToTerm
  /\ nextIndex = NewEncoder.nextIndex
  /\ questionIndex = <<>>
  /\ expressionIndex = <<>>
  /\ primeFactorCache = <<>>
  /\ indexed = 0
  /\ skipped = {}
  /\ op = [name |-> "new"]

\* await mathEllm.processDataset(dataset)
ProcessDatasetCall(data) ==
  /\ indexed + Len(data) <= MaxIndexed
  /\ \E r \in {processDataset(Sys, data, 1, {})} :
       /\ SysBecomes(r.sys)
       /\ skipped' = skipped \cup r.raised
       /\ op' = [name |-> "processDataset", data |-> data, raised |-> r.raised]
  /\ indexed' = indexed + Len(data)

\* mathEllm.answerQuestion(question)
AnswerQuestionCall(question) ==
  /\ \E r \in {answerQuestion(Sys, question)} :
       /\ SysBecomes(r.sys)
       /\ op' = [name |-> "answerQuestion", question |-> question,
                 matches |-> r.matches, ret |-> r.ret]
  /\ UNCHANGED <<indexed, skipped>>

\* encoder.getPrime(term)
GetPrimeCall(term) ==
  /\ \E r \in {getPrime(Enc, term)} :
       /\ EncBecomes(r.enc)
       /\ op' = [name |-> "getPrime", term |-> term, ret |-> r.ret]
  /\ UNCHANGED <<questionIndex, expressionIndex, primeFactorCache, indexed, skipped>>

\* encoder.encodeExpression(expr)
EncodeExpressionCall(expr) ==
  /\ \E r \in {encodeExpression(Enc, expr)} :
       /\ EncBecomes(r.enc)
       /\ op' = [name |-> "encodeExpression", expr |-> expr, ret |-> r.ret]
  /\ UNCHANGED <<questionIndex, expressionIndex, primeFactorCache, indexed, skipped>>

\* encoder.encodeTerms(expr)
EncodeTermsCall(expr) ==
  /\ \E r \in {encodeTerms(Enc, expr)} :
       /\ EncBecomes(r.enc)
       /\ op' = [name |-> "encodeTerms", expr |-> expr, ret |-> r.ret]
  /\ UNCHANGED <<questionIndex, expressionIndex, primeFactorCache, indexed, skipped>>

Next ==
  \/ \E data \in Datasets : ProcessDatasetCall(data)
  \/ \E question \in QuestionPool : AnswerQuestionCall(question)
  \/ \E term \in TermPool : GetPrimeCall(term)

Spec == Init /\ [][Next]_vars

---------------------------------------------------------------------------
(* A MathExpressionEncoder alone, called from outside. *)

NextEnc ==
  \/ \E term \in TermPool \cup SeedTermPool : GetPrimeCall(term)
  \/ \E expr \in ExpressionPool : EncodeExpressionCall(expr)
  \/ \E expr \in KeyTextPool : EncodeTermsCall(expr)

SpecEnc == Init /\ [][NextEnc]_vars

---------------------------------------------------------------------------
(* A PrimeCalculator alone: new PrimeCalculator(max), then getNthPrime.    *)

InitPrime ==
  /\ \E max \in 0..MaxSieve :
       /\ primes = generatePrimes(max)
       /\ op = [name |-> "PrimeCalculator", max |-> max, n |-> 0,
                returned |-> TRUE, ret |-> 0]
  /\ primeCache = <<>>
  /\ termToPrime = <<>>
  /\ primeToTerm = <<>>
  /\ nextIndex = 0
  /\ questionIndex = <<>>
  /\ expressionIndex = <<>>
  /\ primeFactorCache = <<>>
  /\ indexed = 0
  /\ skipped = {}

\* calc.getNthPrime(n); a call that has not returned leaves no next call
GetNthPrimeCall(n) ==
  /\ op.returned
  /\ \E r \in {getNthPrime(primes, primeCache, n)} :
       /\ primes' = r.primes
       /\ primeCache' = r.primeCache
       /\ op' = [name |-> "getNthPrime", max |-> op.max, n |-> n,
                 returned |-> r.returned, ret |-> r.ret]
  /\ UNCHANGED <<termToPrime, primeToTerm, nextIndex, questionIndex,
                 expressionIndex, primeFactorCache, indexed, skipped>>

NextPrime == \E n \in 0..MaxN : GetNthPrimeCall(n)

SpecPrime == InitPrime /\ [][NextPrime]_vars

---------------------------------------------------------------------------
(* tokenizeExpression alone, on an expression body and on the body in      *)
(* delimiters.                                                              *)

BodyChars == {"x", "+", "$", "\\", "(", ")"}

RECURSIVE BodiesUpTo(_)
BodiesUpTo(n) ==
  IF n = 0 THEN {""}
  ELSE BodiesUpTo(n - 1) \cup {b \o c : b \in BodiesUpTo(n - 1), c \in BodyChars}

Bodies == BodiesUpTo(MaxBodyLen)

\* the expression body of the run
InitTok ==
  /\ primes = <<>>
  /\ primeCache = <<>>
  /\ termToPrime = <<>>
  /\ primeToTerm = <<>>
  /\ nextIndex = 0
  /\ questionIndex = <<>>
  /\ expressionIndex = <<>>
  /\ primeFactorCache = <<>>
  /\ indexed = 0
  /\ skipped = {}
  /\ \E body \in Bodies : op = [name |-> "body", body |-> body]

\* encoder.tokenizeExpression of the body, of $body$ and of \(body\)
TokenizeCall ==
  /\ op.name = "body"
  /\ op' = [name |-> "tokenizeExpression", body |-> op.body,
            ret |-> tokenizeExpression(op.body),
            inDollars |-> tokenizeExpression("$" \o op.body \o "$"),
            inParens |-> tokenizeExpression("\\(" \o op.body \o "\\)")]
  /\ UNCHANGED <<primes, primeCache, termToPrime, primeToTerm, nextIndex,
                 questionIndex, expressionIndex, primeFactorCache, indexed, skipped>>

NextTok == TokenizeCall

SpecTok == InitTok /\ [][NextTok]_vars

---------------------------------------------------------------------------
(* answerQuestion on questions of the categories of generateAnswer, over   *)
(* an index that is empty or holds the records given here.                  *)

GenQuestionPool ==
  { "derivative of x^3", "Differentiate sin(x)", "d/dx", "x^2 derivative",
    "Find the integral of x^3", "integrate SIN(X)", "antiderivative",
    "Integral of X^3", "integral derivative x^3",
    "quadratic equation", "solve x^3", "what" }

GenDatasets == { <<Entry(1, JsString("x^2+x"), JsString("$2x$"))>> }

NextGen ==
  \/ \E data \in GenDatasets : ProcessDatasetCall(data)
  \/ \E question \in GenQuestionPool : AnswerQuestionCall(question)

SpecGen == Init /\ [][NextGen]_vars

---------------------------------------------------------------------------
(* processDataset and answerQuestion over records with several expressions *)
(* each, whose questions are similar to the queries in different degrees.   *)

TopRecordPool ==
  { Entry(1, JsString("x^2+x"), JsString("$a$ $b$ $c$")),
    Entry(2, JsString("x^2"), JsString("$d$ $e$ $f$")),
    Entry(3, JsString("x^2-x"), JsString("$g$")) }

TopDatasets == UNION {[1..n -> TopRecordPool] : n \in 1..MaxBatch}

TopQuestionPool == {"X^2", "x"}

NextTop ==
  \/ \E data \in TopDatasets : ProcessDatasetCall(data)
  \/ \E question \in TopQuestionPool : AnswerQuestionCall(question)

SpecTop == Init /\ [][NextTop]_vars

---------------------------------------------------------------------------
(* processDataset and answerQuestion with queries that bring tokens the    *)
(* corpus does not have, so that the primes of these tokens depend on the   *)
(* order of the queries.                                                     *)

OrdDatasets ==
  { <<Entry(1, JsString("x^2+x"), JsString("$2x$"))>>,
    <<Entry(2, JsString("sin(y)"), JsString("so $2x$"))>> }

OrdQuestionPool == {"sin(x)", "sin(2)", "X^2"}

NextOrd ==
  \/ \E data \in OrdDatasets : ProcessDatasetCall(data)
  \/ \E question \in OrdQuestionPool : AnswerQuestionCall(question)

SpecOrd == Init /\ [][NextOrd]_vars

---------------------------------------------------------------------------
(* What the properties below are stated with: the primes by their          *)
(* definition, products and factor sets by arithmetic alone.                 *)

\* the reference primes are those up to MaxPrimeRef
MaxPrimeRef == 200

PrimesRef == {p \in 2..MaxPrimeRef : \A d \in 2..(p - 1) : p % d # 0}

\* the primes in increasing order
PrimeSeqRef ==
  [k \in 1..Cardinality(PrimesRef) |->
     CHOOSE p \in PrimesRef : Cardinality({q \in PrimesRef : q <= p}) = k]

\* the k-th prime, k = 1 for 2
NthPrimeRef(k) == PrimeSeqRef[k]

\* termToPrime is one-to-one onto the first nextIndex primes, its keys are
\* lower-cased, and primeToTerm is its inverse
C1_MapOf(t2p, p2t, next) ==
  /\ \A t \in DOMAIN t2p : toLowerCase(t) = t
  /\ \A t1, t2 \in DOMAIN t2p : t2p[t1] = t2p[t2] => t1 = t2
  /\ next = Cardinality(DOMAIN t2p)
  /\ {t2p[t] : t \in DOMAIN t2p} = {NthPrimeRef(k) : k \in 1..next}
  /\ DOMAIN p2t = {t2p[t] : t \in DOMAIN t2p}
  /\ \A t \in DOMAIN t2p : p2t[t2p[t]] = t

\* a step assigns the next primes, in increasing order of the counter, to
\* the tokens it sees first, and moves the counter by their number
C1_Step ==
  /\ \A t \in DOMAIN termToPrime' \ DOMAIN termToPrime :
       /\ \A u \in DOMAIN termToPrime : termToPrime'[t] > termToPrime[u]
       /\ \E k \in (nextIndex + 1)..nextIndex' : termToPrime'[t] = NthPrimeRef(k)
  /\ nextIndex' - nextIndex =
       Cardinality(DOMAIN termToPrime' \ DOMAIN termToPrime)

\* getPrime(term) returns the prime of the lower-cased term: the one it had,
\* or the next prime with the counter moved by one
C1_Call ==
  op'.name = "getPrime" =>
    /\ op'.ret = termToPrime'[toLowerCase(op'.term)]
    /\ IF toLowerCase(op'.term) \in DOMAIN termToPrime
       THEN /\ op'.ret = termToPrime[toLowerCase(op'.term)]
            /\ nextIndex' = nextIndex
       ELSE /\ op'.ret = NthPrimeRef(nextIndex + 1)
            /\ nextIndex' = nextIndex + 1

\* C1: in every state reached by getPrime calls (direct ones and those of
\* seeding, indexing and querying) the term->prime map is a bijection
\* between the lower-cased tokens seen so far and the first nextIndex
\* primes, assigned in first-seen order: equal lower-cased tokens get the
\* same prime, distinct ones never share a prime, and nextIndex moves only
\* when a new token is assigned.
C1_TermPrimeBijection ==
  /\ C1_MapOf(termToPrime, primeToTerm, nextIndex)
  /\ [][C1_MapOf(termToPrime', primeToTerm', nextIndex') /\ C1_Step /\ C1_Call]_vars

\* getPrime("X") after indexing has assigned x: the prime of x is returned
C1_Witness ==
  /\ op.name = "getPrime"
  /\ op.term = "X"
  /\ indexed > 0
  /\ nextIndex > Len(CommonSymbols) + 1
  /\ op.ret = termToPrime["x"]
  /\ op.ret > NthPrimeRef(Len(CommonSymbols) + 1)

\* C2: for every sieve bound and every n >= 0, getNthPrime(n) returns, and
\* returns the n-th prime counted from 0, also when the list the sieve gave
\* has to be extended.
C2_NthPrime ==
  op.name = "getNthPrime" =>
    /\ op.returned
    /\ op.ret = NthPrimeRef(op.n + 1)

\* the product of the primes the map holds for the tokens
RECURSIVE ProductRef(_, _)
ProductRef(t2p, tokens) ==
  IF tokens = <<>> THEN 1
  ELSE t2p[toLowerCase(Head(tokens))] * ProductRef(t2p, Tail(tokens))

CountRef(tokens, t) == Cardinality({i \in DOMAIN tokens : tokens[i] = t})

IsPermutationRef(T, U) ==
  /\ Len(T) = Len(U)
  /\ \A t \in SeqToSet(T) \cup SeqToSet(U) : CountRef(T, t) = CountRef(U, t)

\* U is T with one more token at its end
IsAppendedRef(T, U) ==
  /\ Len(U) = Len(T) + 1
  /\ SubSeq(U, 1, Len(T)) = T

\* the encoder e encodes expr1 and then expr2, a permutation of its tokens:
\* the same number comes out
C3_Permuted(e, expr1, expr2) ==
  IsPermutationRef(tokenizeExpression(expr1), tokenizeExpression(expr2)) =>
    encodeExpression(encodeExpression(e, expr1).enc, expr2).ret
      = encodeExpression(e, expr1).ret

\* the encoder e encodes expr1 and then expr2, the tokens of expr1 and one
\* more: the number of expr1 times the prime of that token comes out
C3_Appended(e, expr1, expr2) ==
  IsAppendedRef(tokenizeExpression(expr1), tokenizeExpression(expr2)) =>
    encodeExpression(encodeExpression(e, expr1).enc, expr2).ret
      = encodeExpression(e, expr1).ret
          * getPrime(encodeExpression(encodeExpression(e, expr1).enc, expr2).enc,
                     tokenizeExpression(expr2)[Len(tokenizeExpression(expr2))]).ret

\* C3: the encoding of an expression is the product of getPrime(t) over its
\* tokens t: an encoder gives a permutation of the tokens the same encoding,
\* one more occurrence of a token multiplies the encoding by the prime of
\* that token, and no tokens encode to 1.
C3_EncodingIsProduct ==
  /\ op.name = "encodeExpression" =>
       op.ret = ProductRef(termToPrime, tokenizeExpression(op.expr))
  /\ \A expr1, expr2 \in ExpressionPool :
       /\ C3_Permuted(Enc, expr1, expr2)
       /\ C3_Appended(Enc, expr1, expr2)
  /\ encodeExpression(Enc, "").ret = 1
  /\ encodeExpression(Enc, "").enc = Enc

\* b*a*a is encoded after a had its prime before b, as a*a*b assigns them
C3_Witness ==
  /\ op.name = "encodeExpression"
  /\ op.expr = "b*a*a"
  /\ termToPrime["a"] < termToPrime["b"]
  /\ op.ret = termToPrime["a"] * termToPrime["a"] * termToPrime["b"]
                * termToPrime["*"] * termToPrime["*"]
  /\ op.ret = encodeExpression(Enc, "a*a*b").ret

\* the sets of prime factors and their Jaccard similarity by definition
FactorSetRef(n) == {p \in PrimesRef : n % p = 0}

JaccardRef(A, B) ==
  IF A \cup B = {} THEN Ratio(0, 1)
  ELSE Ratio(Cardinality(A \cap B), Cardinality(A \cup B))

RatioEq(a, b) == a.num * b.den = b.num * a.den

\* the factor set of the key-term encoding of the question asked last
QueryFactorsRef == FactorSetRef(encodeTerms(Enc, op.question).ret)

\* the similarity of the question asked last and the k-th indexed key
SimilarityRef(k) ==
  JaccardRef(QueryFactorsRef, FactorSetRef(BigInt(questionIndex[k].key)))

\* the match m is an expression of the k-th indexed key, with the
\* similarity of that key
C4_MatchOfKey(m, k) ==
  /\ RatioEq(m.similarity, SimilarityRef(k))
  /\ \E j \in DOMAIN questionIndex[k].expressions :
       /\ m.expression = expressionIndex[questionIndex[k].expressions[j]].expression
       /\ m.qid = expressionIndex[questionIndex[k].expressions[j]].qid

\* calculateJaccardSimilarity of two factor lists is |A n B| / |A u B| of
\* their sets: 1 for equal non-empty sets, 0 for disjoint ones, 0 for two
\* empty ones
C4_Jaccard(f1, f2) ==
  /\ RatioEq(calculateJaccardSimilarity(f1, f2), JaccardRef(SeqToSet(f1), SeqToSet(f2)))
  /\ (SeqToSet(f1) = SeqToSet(f2) /\ f1 # <<>>) =>
       RatioEq(calculateJaccardSimilarity(f1, f2), Ratio(1, 1))
  /\ SeqToSet(f1) \cap SeqToSet(f2) = {} =>
       calculateJaccardSimilarity(f1, f2).num = 0
  /\ (f1 = <<>> /\ f2 = <<>>) => calculateJaccardSimilarity(f1, f2) = Ratio(0, 1)

\* C4: every match findSimilarQuestions returns has a Jaccard similarity
\* strictly above 0.3, the similarity being |A n B| / |A u B| of the factor
\* sets of the query and of an indexed key (1 for equal non-empty sets, 0
\* for disjoint sets, 0 for two empty sets).
C4_MatchesAboveThreshold ==
  /\ op.name = "answerQuestion" =>
       \A i \in DOMAIN op.matches :
         /\ RatioGreater(op.matches[i].similarity, Ratio(3, 10))
         /\ \E k \in DOMAIN questionIndex : C4_MatchOfKey(op.matches[i], k)
  /\ \A k1, k2 \in DOMAIN primeFactorCache :
       C4_Jaccard(primeFactorCache[k1], primeFactorCache[k2])

\* a query that one indexed key matches in part, while another indexed key
\* shares a factor with it and stays below the threshold
C4_Witness ==
  /\ op.name = "answerQuestion"
  /\ Len(op.matches) > 0
  /\ \E i \in DOMAIN op.matches :
       op.matches[i].similarity.num < op.matches[i].similarity.den
  /\ \E k \in DOMAIN questionIndex :
       /\ SimilarityRef(k).num > 0
       /\ ~RatioGreater(SimilarityRef(k), Ratio(3, 10))

\* the records that raised contribute nothing: what the call leaves is what
\* it leaves when given the other records alone
C5_Step ==
  op'.name = "processDataset" =>
    Sys' = processDataset(Sys,
             SelectSeq(op'.data, LAMBDA entry : entry.qid \notin op'.raised),
             1, {}).sys

\* C5: processDataset goes on past a record that raises, and such a record
\* contributes nothing: the expression store and the question index hold
\* exactly what the records that did not raise contribute, each expression
\* with the answer and the source id of its own record.
C5_RaisingRecordsContributeNothing ==
  [][C5_Step /\ \A key \in DOMAIN expressionIndex' :
                  expressionIndex'[key].qid \notin skipped']_vars

\* some indexed key is similar to the question asked last
C6_SimilarKey ==
  \E k \in DOMAIN questionIndex : RatioGreater(SimilarityRef(k), Ratio(3, 10))

\* C6: answerQuestion ends in one of two ways: matched, exactly when some
\* indexed key-term encoding has Jaccard similarity > 0.3 with the query,
\* with a non-empty answer and no note; generated otherwise, with
\* confidence "0.5000" and a note.  The note is there if and only if the
\* result is generated.
C6_MatchedOrGenerated ==
  op.name = "answerQuestion" =>
    /\ op.ret.query = op.question
    /\ IF C6_SimilarKey
       THEN /\ "note" \notin DOMAIN op.ret
            /\ Len(op.matches) > 0
            /\ op.ret.answer.type = "string"
            /\ op.ret.answer.value # ""
       ELSE /\ "note" \in DOMAIN op.ret
            /\ op.matches = <<>>
            /\ op.ret.confidence = "0.5000"

\* a matched result of a key that is similar in part, next to a key that is
\* not similar
C6_Witness ==
  /\ op.name = "answerQuestion"
  /\ "note" \notin DOMAIN op.ret
  /\ op.ret.confidence = "0.7500"
  /\ \E k \in DOMAIN questionIndex : ~RatioGreater(SimilarityRef(k), Ratio(3, 10))

\* C7: a call of answerQuestion leaves the question index, the expression
\* store, the term->prime map and its counter as they were.
C7_QueriesOnlyRead ==
  [][op'.name = "answerQuestion" =>
       UNCHANGED <<questionIndex, expressionIndex, termToPrime, nextIndex>>]_vars

\* the seed symbols hold the first primes in their declared order
C8_Seeds(t2p) ==
  /\ \A i \in DOMAIN CommonSymbols : t2p[CommonSymbols[i]] = NthPrimeRef(i)
  /\ Len(CommonSymbols) = 21
  /\ t2p["+"] = 2
  /\ t2p["-"] = 3
  /\ t2p["sqrt"] = 73

\* C8: over indexing and queries a token that has a prime keeps it and no
\* assignment is removed; the 21 seed symbols, assigned in their declared
\* order before any other token, hold the first 21 primes ('+' -> 2,
\* '-' -> 3, ..., 'sqrt' -> 73) in every state.
C8_AssignmentsStable ==
  /\ C8_Seeds(termToPrime)
  /\ [][/\ \A t \in DOMAIN termToPrime :
             /\ t \in DOMAIN termToPrime'
             /\ termToPrime'[t] = termToPrime[t]
        /\ C8_Seeds(termToPrime')]_vars

\* tokens of the corpus and of a query have primes after the seeds
C8_Witness ==
  /\ op.name = "answerQuestion"
  /\ indexed > 1
  /\ nextIndex > Len(CommonSymbols) + 4
  /\ "y" \in DOMAIN termToPrime
  /\ \A t \in DOMAIN termToPrime :
       t \notin SeqToSet(CommonSymbols) => termToPrime[t] > 73

\* C9: tokenizeExpression strips the delimiters: the body in single dollars
\* and the body in \( \) give the tokens of the body alone.
C9_DelimitersStripped ==
  op.name = "tokenizeExpression" =>
    /\ op.inDollars = op.ret
    /\ op.inParens = op.ret

\* a token that is, lower-cased, a single letter, a number or a key symbol
KeyTermRef(token) ==
  \/ (Len(token) = 1 /\ IsLetter(token))
  \/ IsNumberToken(token)
  \/ toLowerCase(token) \in keySymbols

RECURSIVE FoldRef(_)
FoldRef(tokens) ==
  IF tokens = <<>> THEN <<>>
  ELSE <<toLowerCase(Head(tokens))>> \o FoldRef(Tail(tokens))

\* C10: the key-term encoding is the product of the primes of the tokens
\* that are, case-folded, a single letter, a number or a key symbol; so
\* texts whose tokens are equal after case-folding get the same key-term
\* encoding, and no qualifying token gives 1.
C10_KeyTermEncoding ==
  op.name = "encodeTerms" =>
    /\ op.ret = ProductRef(termToPrime,
                           SelectSeq(tokenizeExpression(op.expr), KeyTermRef))
    /\ \A expr \in KeyTextPool :
         FoldRef(tokenizeExpression(expr)) = FoldRef(tokenizeExpression(op.expr))
           => encodeTerms(Enc, expr).ret = op.ret

\* the categories in their order: whether the question is of the category,
\* case-insensitively, and the expression of its template
DerivativeRef(l) ==
  Contains(l, "derivative") \/ Contains(l, "differentiate") \/ Contains(l, "d/dx")

IntegralRef(l) ==
  Contains(l, "integrate") \/ Contains(l, "integral") \/ Contains(l, "antiderivative")

EquationRef(l) ==
  Contains(l, "equation") \/ Contains(l, "solve") \/ FindThenX(l)

\* the exponent n of the first x^n of the lower-cased question, as written
ExponentRef(l) ==
  SubSeq(l, PowerMatchPos(l) + 2, DigitRunEnd(l, PowerMatchPos(l) + 2))

CategoriesRef(l) ==
  << [matches |-> DerivativeRef(l) /\ PowerMatchPos(l) > 0,
      expression |-> "\\frac{d}{dx}(x^" \o ExponentRef(l) \o ") = " \o ExponentRef(l)
                     \o "x^" \o NumToString(BigInt(ExponentRef(l)) - 1)],
     [matches |-> DerivativeRef(l) /\ Contains(l, "sin(x)"),
      expression |-> "\\frac{d}{dx}\\sin(x) = \\cos(x)"],
     [matches |-> DerivativeRef(l),
      expression |-> "\\frac{d}{dx}f(x) = f'(x)"],
     [matches |-> IntegralRef(l) /\ PowerMatchPos(l) > 0,
      expression |-> "\\int x^" \o ExponentRef(l) \o " dx = \\frac{x^"
                     \o NumToString(BigInt(ExponentRef(l)) + 1) \o "}{"
                     \o NumToString(BigInt(ExponentRef(l)) + 1) \o "} + C"],
     [matches |-> IntegralRef(l) /\ Contains(l, "sin(x)"),
      expression |-> "\\int \\sin(x) dx = -\\cos(x) + C"],
     [matches |-> IntegralRef(l),
      expression |-> "\\int f(x) dx = F(x) + C"],
     [matches |-> EquationRef(l) /\ (Contains(l, "quadratic") \/ Contains(l, "x^2")),
      expression |-> "x = \\frac{-b \\pm \\sqrt{b^2 - 4ac}}{2a}"],
     [matches |-> EquationRef(l),
      expression |-> "ax + b = 0 \\implies x = -\\frac{b}{a}"],
     [matches |-> TRUE,
      expression |-> "E = mc^2"] >>

\* the expression of the first category the question is of
TemplateRef(question) ==
  CategoriesRef(toLowerCase(question))[
    CHOOSE i \in DOMAIN CategoriesRef(toLowerCase(question)) :
      /\ CategoriesRef(toLowerCase(question))[i].matches
      /\ \A j \in 1..(i - 1) : ~CategoriesRef(toLowerCase(question))[j].matches
  ].expression

\* C11: when no indexed entry clears the threshold, the generated result is
\* the template of the first category whose pattern matches the question
\* case-insensitively, in the order derivative of a power, derivative of
\* sin, derivative, integral of a power, integral of sin, integral,
\* quadratic equation, linear equation, and the placeholder when none
\* matches; the integral of x^n is \int x^n dx = \frac{x^{n+1}}{n+1} + C
\* with n+1 as a number.
C11_FirstCategoryTemplate ==
  (op.name = "answerQuestion" /\ ~C6_SimilarKey) =>
    /\ "note" \in DOMAIN op.ret
    /\ op.ret.expression = TemplateRef(op.question)
    /\ op.question = "Find the integral of x^3" =>
         op.ret.expression = "\\int x^3 dx = \\frac{x^4}{4} + C"

\* the qualifying matches of the question asked last, each named by the
\* position k of its key in the question index and the position j of its
\* expression under that key
QualifyingRef ==
  UNION { {<<k, j>> : j \in DOMAIN questionIndex[k].expressions} :
          k \in {k \in DOMAIN questionIndex :
                   RatioGreater(SimilarityRef(k), Ratio(3, 10))} }

\* p comes before q: by similarity descending, then by insertion
BeforeRef(p, q) ==
  \/ RatioGreater(SimilarityRef(p[1]), SimilarityRef(q[1]))
  \/ /\ RatioEq(SimilarityRef(p[1]), SimilarityRef(q[1]))
     /\ (p[1] < q[1] \/ (p[1] = q[1] /\ p[2] < q[2]))

RankRef(p) == 1 + Cardinality({q \in QualifyingRef : BeforeRef(q, p)})

\* m is the match of p
C12_MatchOfPair(m, p) ==
  /\ RatioEq(m.similarity, SimilarityRef(p[1]))
  /\ m.expression = expressionIndex[questionIndex[p[1]].expressions[p[2]]].expression
  /\ m.answer = expressionIndex[questionIndex[p[1]].expressions[p[2]]].answer
  /\ m.qid = expressionIndex[questionIndex[p[1]].expressions[p[2]]].qid

\* the greatest similarity of the question asked last and an indexed key
C12_IsMaxSimilarity(k) ==
  \A k2 \in DOMAIN questionIndex : ~RatioGreater(SimilarityRef(k2), SimilarityRef(k))

\* C12: findSimilarQuestions returns at most 5 matches, the first 5 of the
\* qualifying matches by similarity descending, ties in insertion order
\* (of the key, then of the expression under it); so the confidence of a
\* matched result is the greatest similarity of the query and an indexed
\* key-term encoding.
C12_TopFiveStable ==
  op.name = "answerQuestion" =>
    /\ Len(op.matches) <= 5
    /\ Len(op.matches) = IF Cardinality(QualifyingRef) < 5
                         THEN Cardinality(QualifyingRef) ELSE 5
    /\ \A p \in QualifyingRef :
         RankRef(p) <= 5 => C12_MatchOfPair(op.matches[RankRef(p)], p)
    /\ "note" \notin DOMAIN op.ret =>
         /\ op.ret.expression = op.matches[1].expression
         /\ op.ret.answer = op.matches[1].answer
         /\ \E k \in DOMAIN questionIndex :
              /\ C12_IsMaxSimilarity(k)
              /\ op.ret.confidence = toFixed4(SimilarityRef(k))

\* more than 5 matches qualify, the key inserted second is the more similar
\* one, and the last two of the 5 tie
C12_Witness ==
  /\ op.name = "answerQuestion"
  /\ Cardinality(QualifyingRef) > 5
  /\ Len(op.matches) = 5
  /\ Len(questionIndex) = 2
  /\ RatioGreater(SimilarityRef(2), SimilarityRef(1))
  /\ RatioGreater(op.matches[1].similarity, op.matches[5].similarity)
  /\ RatioEq(op.matches[4].similarity, op.matches[5].similarity)
  /\ op.ret.confidence = "1.0000"

\* the question of the record r is similar to the question asked last
C13_QuestionClears(r) ==
  /\ r.question.type = "string"
  /\ RatioGreater(JaccardRef(QueryFactorsRef,
                             FactorSetRef(encodeTerms(Enc, r.question.value).ret)),
                  Ratio(3, 10))

\* C13: every match findSimilarQuestions returns carries the expression,
\* the answer and the source id of a record whose own question has
\* similarity > 0.3 with the query, also when several indexed expressions
\* share one encoding and the expression store keeps the last one written.
\* It is stated of the corpora none of whose records raised, so that what
\* a skipped record leaves behind plays no part.
C13_MatchFromSimilarRecord ==
  (op.name = "answerQuestion" /\ skipped = {}) =>
    \A i \in DOMAIN op.matches :
      \E r \in RecordPool :
        /\ ~r.isNull
        /\ r.qid = op.matches[i].qid
        /\ r.answer = op.matches[i].answer
        /\ op.matches[i].expression
             \in SeqToSet(extractExpressions(JsToString(r.answer)))
        /\ C13_QuestionClears(r)

\* every cached factor list holds the assigned primes that divide its
\* encoding, as the map t2p has them
C14_CacheFresh(cache, t2p) ==
  \A key \in DOMAIN cache :
    SeqToSet(cache[key]) = {p \in {t2p[t] : t \in DOMAIN t2p} : BigInt(key) % p = 0}

\* a query leaves the answer to every question what it was before it
C14_SameAnswers ==
  op'.name = "answerQuestion" =>
    \A q \in OrdQuestionPool :
      answerQuestion(Sys', q).ret = answerQuestion(Sys, q).ret

\* C14: the answer to a query does not depend on the queries asked before
\* it: over a given corpus, answerQuestion(q) returns the same expression,
\* confidence, answer and note after any prior queries, although they
\* assign primes to new tokens and fill the factor cache; and a cached
\* factor set is in every state the set of assigned primes that divide its
\* encoding.
C14_QueryOrderIndependent ==
  /\ C14_CacheFresh(primeFactorCache, termToPrime)
  /\ [][C14_SameAnswers /\ C14_CacheFresh(primeFactorCache', termToPrime')]_vars

\* sin(x) is matched by the one indexed question, sin(y), after the query
\* sin(2) has taken the prime that x has when sin(x) is asked first
C14_Witness ==
  /\ op.name = "answerQuestion"
  /\ op.question = "sin(x)"
  /\ Len(questionIndex) = 1
  /\ "note" \notin DOMAIN op.ret
  /\ op.ret.confidence = "0.3333"
  /\ "2" \in DOMAIN termToPrime
  /\ termToPrime["2"] < termToPrime["x"]
  /\ Cardinality(DOMAIN primeFactorCache) >= 3

=============================================================================
